---------------------------- MODULE Spec2Model ----------------------------
(***************************************************************************)
(* Tabular denoising diffusion (src/diffusion_models): the noise schedule, *)
(* the reverse samplers, the loss estimators and the training loop,        *)
(* modelled as state machines.                                             *)
(*                                                                         *)
(* Numbers.  Tensor elements and schedule values are exact rationals       *)
(* <<n, d>> (d > 0, lowest terms).  torch.sqrt is correctly rounded: exact *)
(* on perfect squares, otherwise rounded down to a multiple of             *)
(* 1/SqrtScale.  Vectors are sequences; the 0-based index t of the code is *)
(* element t + 1.                                                          *)
(***************************************************************************)
EXTENDS Integers, Sequences, FiniteSets, TLC

(***************************************************************************)
(* Rational arithmetic                                                     *)
(***************************************************************************)
Abs(n) == IF n < 0 THEN -n ELSE n

\* The arithmetic is written as functions: a function's arguments are
\* evaluated once, before it is applied.
Rat == Int \X Int

GCD[a \in Nat, b \in Nat] == IF b = 0 THEN a ELSE GCD[b, a % b]

RNorm[n \in Int, d \in Int] ==
    LET s == IF d < 0 THEN -1 ELSE 1
        g == GCD[Abs(n), Abs(d)]
    IN  <<(s * n) \div g, (s * d) \div g>>

Zero == <<0, 1>>
One == <<1, 1>>
RInt(i) == <<i, 1>>

RAdd[a \in Rat, b \in Rat] ==
    LET g == GCD[a[2], b[2]]
    IN  RNorm[a[1] * (b[2] \div g) + b[1] * (a[2] \div g), a[2] * (b[2] \div g)]

RNeg[a \in Rat] == <<-a[1], a[2]>>
RSub[a \in Rat, b \in Rat] == RAdd[a, RNeg[b]]

RMul[a \in Rat, b \in Rat] ==
    LET g1 == GCD[Abs(a[1]), b[2]]
        g2 == GCD[Abs(b[1]), a[2]]
        h1 == IF g1 = 0 THEN 1 ELSE g1
        h2 == IF g2 = 0 THEN 1 ELSE g2
    IN  RNorm[(a[1] \div h1) * (b[1] \div h2), (a[2] \div h2) * (b[2] \div h1)]

RSquare[a \in Rat] == RMul[a, a]

RLess(a, b) == a[1] * b[2] < b[1] * a[2]
RLessEq(a, b) == a[1] * b[2] <= b[1] * a[2]

RDiv[a \in Rat, b \in Rat] == RMul[a, RNorm[b[2], b[1]]]

\* the precision of an inexact square root
SqrtScale == 8

ISqrt[n \in Nat] == CHOOSE r \in 0..n : r * r <= n /\ (r + 1) * (r + 1) > n

\* torch.sqrt of a non-negative element
RSqrt[a \in Rat] ==
    LET rn == ISqrt[a[1]]
        rd == ISqrt[a[2]]
    IN  IF rn * rn = a[1] /\ rd * rd = a[2]
        THEN <<rn, rd>>
        ELSE RNorm[ISqrt[(a[1] * SqrtScale * SqrtScale) \div a[2]], SqrtScale]

\* the sum of a vector
RSum[v \in Seq(Rat)] == IF v = <<>> THEN Zero ELSE RAdd[v[1], RSum[Tail(v)]]

\* torch.cumprod(v, 0)
CumProd[v \in Seq(Rat)] ==
    IF Len(v) <= 1 THEN v
    ELSE LET p == CumProd[SubSeq(v, 1, Len(v) - 1)]
         IN  Append(p, RMul[p[Len(p)], v[Len(v)]])

(***************************************************************************)
(* Noise schedule                                                          *)
(***************************************************************************)
\* a linspace that leaves the end point out: n steps of (end - start)/n
LinspaceExclusive(start, end, n) ==
    [i \in 1..n |-> RAdd[start, RDiv[RMul[RInt(i - 1), RSub[end, start]], RInt(n)]]]

\* torch.linspace(start, end, n): inclusive end points, n = 1 gives [start]
Linspace(start, end, n) ==
    [i \in 1..n |->
        IF n = 1 THEN start
        ELSE RAdd[start, RDiv[RMul[RInt(i - 1), RSub[end, start]], RInt(n - 1)]]]

\* torch.sigmoid, approximated by the rational 1/2 + x/(2 + 2|x|): like the
\* sigmoid it is increasing, takes 1/2 at 0, lies inside (0, 1) and
\* satisfies s(-x) = 1 - s(x)
Sigmoid[x \in Rat] ==
    RAdd[RNorm[1, 2], RDiv[x, RAdd[RInt(2), RMul[RInt(2), <<Abs(x[1]), x[2]>>]]]]

\* a builder that ignores the kind
AlwaysLinear(schedule, n_timesteps, start, end) == Linspace(start, end, n_timesteps)

\* make_beta_schedule(schedule, n_timesteps, start, end): "quad" and
\* "sigmoid" select their branch, every other string the linear schedule
make_beta_schedule(schedule, n_timesteps, start, end) ==
    IF schedule = "quad"
    THEN LET roots == Linspace(RSqrt[start], RSqrt[end], n_timesteps)
         IN  [i \in 1..n_timesteps |-> RSquare[roots[i]]]
    ELSE IF schedule = "sigmoid"
    THEN LET line == Linspace(RInt(-6), RInt(6), n_timesteps)
         IN  [i \in 1..n_timesteps |->
                 RAdd[RMul[Sigmoid[line[i]], RSub[end, start]], start]]
    ELSE Linspace(start, end, n_timesteps)

\* a constructor that takes the alphas for their cumulative product
DiffusionNoCumprod(num_steps, start, end) ==
    LET betas == Linspace(start, end, num_steps)
        alphas == [i \in 1..num_steps |-> RSub[One, betas[i]]]
    IN  [num_steps |-> num_steps,
         betas |-> betas,
         alphas |-> alphas,
         alphas_prod |-> alphas,
         alphas_bar_sqrt |-> [i \in 1..num_steps |-> RSqrt[alphas[i]]],
         one_minus_alphas_bar_sqrt |->
             [i \in 1..num_steps |-> RSqrt[RSub[One, alphas[i]]]]]

\* Diffusion(num_steps); the end points of the beta schedule, fixed to 1e-5
\* and 0.5e-2 in the constructor, are inputs here
Diffusion(num_steps, start, end) ==
    LET betas == make_beta_schedule("linear", num_steps, start, end)
        alphas == [i \in 1..num_steps |-> RSub[One, betas[i]]]
        alphas_prod == CumProd[alphas]
    IN  [num_steps |-> num_steps,
         betas |-> betas,
         alphas |-> alphas,
         alphas_prod |-> alphas_prod,
         alphas_bar_sqrt |-> [i \in 1..num_steps |-> RSqrt[alphas_prod[i]]],
         one_minus_alphas_bar_sqrt |->
             [i \in 1..num_steps |-> RSqrt[RSub[One, alphas_prod[i]]]]]

\* an extract that reads the schedule at the first index for every row
ExtractFirst(input, t) == [i \in 1..Len(t) |-> input[t[1] + 1]]

\* extract(input, t, x): input[t[i]] for every row i, as a column that
\* broadcasts over the row's features
extract(input, t) == [i \in 1..Len(t) |-> input[t[i] + 1]]


(***************************************************************************)
(* Bounds and input sets                                                   *)
(***************************************************************************)
\* largest number of diffusion steps (num_steps, n_steps)
MaxSteps == 2
\* largest number of generated rows (num_to_gen, sample_size)
MaxGen == 1
\* largest number of classes of one discrete feature
MaxCard == 2

\* values a standard-normal draw (torch.randn) takes
Gauss == {RInt(-1), RInt(1)}
\* torch.randn of n rows, one continuous feature per row
Randn(n) == [1..n -> Gauss]

\* torch.nn.functional.one_hot(c, k) of one class index c
one_hot(c, k) == [j \in 1..k |-> IF j = c + 1 THEN 1 ELSE 0]
\* one_hot(torch.multinomial(weights, n, replacement=True), k) with uniform
\* weights 1/k: every batch of n one-hot rows over k classes
RandomOneHot(n, k) == {[i \in 1..n |-> one_hot(c[i], k)] : c \in [1..n -> 0..(k - 1)]}

\* end points (start, end) of the beta schedule with 0 < start <= end < 1,
\* the range of the constructor's own 1e-5 and 0.5e-2
OpenEnds == {<<RNorm[1, 4], RNorm[1, 2]>>, <<RNorm[1, 4], RNorm[1, 4]>>}

(***************************************************************************)
(* State                                                                   *)
(***************************************************************************)
VARIABLES
    sched_args,     \* the arguments of a schedule construction
    sched_out,      \* its outcome: pending, returned (with the betas) or error
    \* --- helper calls (extract, extract_cat, to_one_hot)
    h_args,         \* the helper called and its arguments
    h_out,          \* its outcome: pending, returned (with the value) or error
    \* --- recursive_pca
    rpc,            \* position: entry, returned or RecursionError
    contour_levels, \* the argument of the innermost call
    frames,         \* calls of recursive_pca on the stack
    pca_warned,     \* warnings.warn was called
    pca_raises,     \* perform_pca raises ValueError on every attempt
    diffs,          \* the Diffusion object (noise schedule)
    model,          \* the network: the name of its fixed weights
    \* --- reverse sampler (p_sample_loop, p_tabular_sample_loop)
    pc,             \* position in the sampler
    fn,             \* the entry point called
    out_args,       \* get_tabular_model_output: feature_indices, calculate_continuous
    num_to_gen,     \* rows to generate
    e,              \* discrete conditioning of the tabular sampler
    cur_x,          \* current sample
    x_seq,          \* trajectory
    iter,           \* the values reversed(range(n_steps)) has yet to yield
    calls,          \* the network queries made so far, in order
    draws,          \* the torch.randn and torch.multinomial draws made so far, in order
    output,         \* the value returned
    seed,           \* the draws a seeded generator yields, <<>> when unseeded
    first_run,      \* the trajectory of an earlier call, <<>> when there is none
    \* --- training loop (reverse_tabular_diffusion)
    tpc,                    \* position in the training loop
    discrete_tr,            \* training rows: category index per feature
    continuous_tr,          \* training rows: continuous value
    batch_size,
    training_time_steps,
    epoch,                  \* the loop variable t
    permutation_discrete,
    permutation_continuous,
    batch_start,            \* the loop variable i
    indices_discrete,
    indices_continuous,
    batch_x_discrete,       \* current batch, one-hot encoded
    batch_x_continuous,
    optimizer_steps,        \* optimizer.step() calls so far
    randperm_calls,         \* torch.randperm calls so far
    epoch_batches,          \* the index windows of the batches of this epoch, in order
    train_log,              \* the optimizer, gradient and EMA calls so far, in order
    show_loss,
    discrete_vl,            \* the validation rows, as the loop holds them
    vl_fed,                 \* the matrices given to the validation loss, one per epoch
    training_loss_list,
    validation_loss_list,
    discrete_distribution_list,
    es_stopped,             \* the early stopper has signalled stop
    train_ret,              \* the value returned, <<>> before the return
    \* --- loss estimators
    lpc,                    \* position in the estimator
    lfn,                    \* the estimator called
    x_0_continuous,         \* batch: continuous value per row
    x_0_discrete,           \* batch: one-hot row per row
    feature_indices,        \* (start, end) of every discrete feature
    drawn,                  \* the result of torch.randint
    timesteps,              \* the vector t: timestep per row
    t_1,                    \* previous timestep per row
    batch_x_list,           \* noised one-hot block per feature
    x_t_probs,              \* per feature, the distribution given to resample
    theta,
    loss

samplerVars == <<pc, fn, out_args, num_to_gen, e, cur_x, x_seq, iter, calls, draws, output, seed,
                 first_run>>
tailVars == <<show_loss, discrete_vl, vl_fed, training_loss_list, validation_loss_list,
              discrete_distribution_list, es_stopped, train_ret>>
trainVars == <<tpc, discrete_tr, continuous_tr, batch_size, training_time_steps,
               epoch, permutation_discrete, permutation_continuous, batch_start,
               indices_discrete, indices_continuous, batch_x_discrete,
               batch_x_continuous, optimizer_steps, randperm_calls, epoch_batches,
               train_log, tailVars>>
lossVars == <<lpc, lfn, x_0_continuous, x_0_discrete, feature_indices, drawn, timesteps, t_1,
              batch_x_list, x_t_probs, theta, loss>>
schedVars == <<sched_args, sched_out>>
helperVars == <<h_args, h_out>>
pcaVars == <<rpc, contour_levels, frames, pca_warned, pca_raises>>
vars == <<schedVars, helperVars, pcaVars, diffs, model, samplerVars, trainVars, lossVars>>

\* no schedule construction is under way
ScheduleIdle == sched_args = <<>> /\ sched_out = [outcome |-> "idle"]

\* no helper call is under way
HelperIdle == h_args = <<>> /\ h_out = [outcome |-> "idle"]

\* recursive_pca is not called
PcaIdle ==
    /\ rpc = "idle" /\ contour_levels = 0 /\ frames = 0
    /\ pca_warned = FALSE /\ pca_raises = FALSE

(***************************************************************************)
(* Networks: fixed weights standing for a trained model.  Each maps a      *)
(* query to the continuous prediction, row by row.                         *)
(***************************************************************************)
Nets == {"zero", "ident", "cond"}

\* the class a one-hot row holds
ClassOf(row) == CHOOSE c \in 0..(Len(row) - 1) : row[c + 1] = 1

\* a network whose output drifts with the number of queries made so far
ForwardCounting(net, x, x_d, y) ==
    [i \in 1..Len(x) |-> RAdd[x[i], RInt(Len(calls))]]

\* ConditionalModel.forward(x, y) / the continuous head of
\* ConditionalTabularModel.forward(x_c, x_d, y, feature_indices);
\* y holds one timestep for the whole batch or one per row
Forward(net, x, x_d, y) ==
    [i \in 1..Len(x) |->
        CASE net = "zero" -> Zero
          [] net = "ident" -> x[i]
          [] net = "cond" ->
                RAdd[RInt(IF Len(y) = 1 THEN y[1] ELSE y[i]),
                     IF x_d = <<>> THEN x[i] ELSE RInt(ClassOf(x_d[i]))]]

\* the discrete head of ConditionalTabularModel.forward: for every row the
\* softmax over each feature's columns, so every feature's slice sums to 1
ForwardDiscrete(net, x_c, x_d, y, fi) ==
    [i \in 1..Len(x_c) |->
        [c \in 1..fi[Len(fi)][2] |->
            LET f == CHOOSE n \in 1..Len(fi) : fi[n][1] < c /\ c <= fi[n][2]
                first == fi[f][1] + 1
                last == fi[f][2]
                held == \E j \in first..last : x_d[i][j] = 1
            IN  CASE net = "zero" -> RNorm[1, last - first + 1]
                  [] net = "ident" ->
                        IF held THEN RInt(x_d[i][c]) ELSE RNorm[1, last - first + 1]
                  [] net = "cond" ->
                        IF x_c[i][1] > 0
                        THEN RInt(IF c = first THEN 1 ELSE 0)
                        ELSE RInt(IF c = last THEN 1 ELSE 0)]]

TrainIdle ==
    /\ tpc = "idle" /\ discrete_tr = <<>> /\ continuous_tr = <<>>
    /\ batch_size = 0 /\ training_time_steps = 0 /\ epoch = 0
    /\ permutation_discrete = <<>> /\ permutation_continuous = <<>>
    /\ batch_start = 0 /\ indices_discrete = <<>> /\ indices_continuous = <<>>
    /\ batch_x_discrete = <<>> /\ batch_x_continuous = <<>> /\ optimizer_steps = 0
    /\ randperm_calls = 0 /\ epoch_batches = <<>> /\ train_log = <<>>
    /\ show_loss = FALSE /\ discrete_vl = <<>> /\ vl_fed = <<>>
    /\ training_loss_list = <<>> /\ validation_loss_list = <<>>
    /\ discrete_distribution_list = <<>> /\ es_stopped = FALSE /\ train_ret = <<>>

LossIdle ==
    /\ lpc = "idle" /\ lfn = "none" /\ x_0_continuous = <<>> /\ x_0_discrete = <<>>
    /\ feature_indices = <<>> /\ drawn = <<>> /\ timesteps = <<>> /\ t_1 = <<>>
    /\ batch_x_list = <<>> /\ x_t_probs = <<>> /\ theta = <<>> /\ loss = <<>>

(***************************************************************************)
(* Reverse sampler                                                         *)
(***************************************************************************)
\* a query whose conditioning is not the caller's: every row's class moved on
QueryOtherCond(x, cond, t) ==
    [x |-> x,
     e |-> [i \in 1..Len(cond) |->
              [j \in 1..Len(cond[i]) |-> cond[i][(j % Len(cond[i])) + 1]]],
     t |-> t]

\* the arguments of the network query of p_sample / p_tabular_sample
Query(x, cond, t) == [x |-> x, e |-> cond, t |-> t]

\* p_sample(model, x, t, alphas, betas, one_minus_alphas_bar_sqrt) and
\* p_tabular_sample(model, x, e, t, feature_indices, ...): cond is <<>> for
\* p_sample; z is the draw of torch.randn_like(x)
p_sample(net, x, cond, t, z, d) ==
    LET tt == <<t>>
        q == Query(x, cond, tt)
        alpha_t == extract(d.alphas, tt)[1]
        eps_factor == RDiv[RSub[One, alpha_t], extract(d.one_minus_alphas_bar_sqrt, tt)[1]]
        eps_theta == Forward(net, q.x, q.e, q.t)
        sigma_t == RSqrt[extract(d.betas, tt)[1]]
    IN  [i \in 1..Len(x) |->
            RAdd[RMul[RDiv[One, RSqrt[alpha_t]],
                      RSub[x[i], RMul[eps_factor, eps_theta[i]]]],
                 RMul[sigma_t, z[i]]]]

\* range(n_steps), not reversed
ForwardRange(n_steps) == [j \in 1..n_steps |-> j - 1]

\* reversed(range(n_steps))
ReversedRange(n_steps) == [j \in 1..n_steps |-> n_steps - j]

\* x_seq[0]
First(xs) == xs[1]

\* x_seq[-1]
Last(xs) == xs[Len(xs)]

\* the values the next torch.randn of n rows can return: any, or the one
\* the seed fixes
NextRandn(n) ==
    IF seed = <<>> THEN Randn(n) ELSE {z \in Randn(n) : z = seed[Len(draws) + 1]}

\* p_sample_loop / p_tabular_sample_loop: cur_x = torch.randn(shape);
\* x_seq = [cur_x]; the loop iterator is created
SampleBegin ==
    /\ pc = "start"
    /\ \E x0 \in NextRandn(num_to_gen) :
        /\ cur_x' = x0
        /\ x_seq' = <<x0>>
        /\ draws' = Append(draws, x0)
    /\ iter' = ReversedRange(diffs.num_steps)
    /\ pc' = "loop"
    /\ UNCHANGED <<schedVars, helperVars, pcaVars, diffs, model, fn, out_args, num_to_gen, e, calls, output, seed, first_run,
                   trainVars, lossVars>>

\* one iteration of the for loop: the network is queried at (cur_x, e, i),
\* the new sample is appended to x_seq
SampleStep ==
    /\ pc = "loop"
    /\ iter # <<>>
    /\ LET i == Head(iter) IN
       \E z \in NextRandn(num_to_gen) :
        LET sample == p_sample(model, cur_x, e, i, z, diffs) IN
        /\ calls' = Append(calls, Query(cur_x, e, <<i>>))
        /\ cur_x' = sample
        /\ x_seq' = Append(x_seq, sample)
        /\ draws' = Append(draws, z)
    /\ iter' = Tail(iter)
    /\ UNCHANGED <<schedVars, helperVars, pcaVars, diffs, model, pc, fn, out_args, num_to_gen, e, output, seed, first_run,
                   trainVars, lossVars>>

\* the loop is exhausted: get_model_output returns x_seq[-1] of the
\* trajectory p_sample_loop returned; p_tabular_sample_loop returns
\* noise_removed = x_seq[-1]
SampleReturn ==
    /\ pc = "loop"
    /\ iter = <<>>
    /\ output' = Last(x_seq)
    /\ pc' = IF fn = "get_tabular_model_output" THEN "discrete" ELSE "done"
    /\ UNCHANGED <<schedVars, helperVars, pcaVars, diffs, model, fn, out_args, num_to_gen, e, cur_x, x_seq, iter, calls, draws, seed,
                   first_run, trainVars, lossVars>>

SamplerIdle ==
    /\ pc = "idle" /\ fn = "none" /\ num_to_gen = 0 /\ e = <<>>
    /\ cur_x = <<>> /\ x_seq = <<>> /\ iter = <<>> /\ calls = <<>>
    /\ draws = <<>> /\ output = <<>> /\ seed = <<>> /\ first_run = <<>>
    /\ out_args = <<>>

\* the sampler is called: get_model_output(model, 1, diffusion, num_to_gen)
\* or p_tabular_sample_loop(model, e, [sample_size, 1], feature_indices, ...)
\* with e drawn as in get_tabular_model_output
InitSample ==
    /\ ScheduleIdle
    /\ HelperIdle
    /\ PcaIdle
    /\ \E T \in 1..MaxSteps, se \in OpenEnds : diffs = Diffusion(T, se[1], se[2])
    /\ model \in Nets
    /\ pc = "start"
    /\ fn \in {"get_model_output", "p_tabular_sample_loop"}
    /\ num_to_gen \in 1..MaxGen
    /\ \/ fn = "get_model_output" /\ e = <<>>
       \/ fn = "p_tabular_sample_loop" /\ \E k \in 2..MaxCard : e \in RandomOneHot(num_to_gen, k)
    /\ cur_x = <<>> /\ x_seq = <<>> /\ iter = <<>> /\ calls = <<>>
    /\ draws = <<>> /\ output = <<>> /\ seed = <<>> /\ first_run = <<>>
    /\ out_args = <<>>
    /\ TrainIdle
    /\ LossIdle

NextSample == SampleBegin \/ SampleStep \/ SampleReturn

\* the sampler is straight-line synchronous code: it runs to completion
SpecSample == InitSample /\ [][NextSample]_vars /\ WF_vars(NextSample)

\* p_sample_loop is called a second time with the same network, shape and
\* schedule, the generator seeded as for the first call
SampleAgain ==
    /\ pc = "done"
    /\ fn = "get_model_output"
    /\ first_run = <<>>
    /\ first_run' = x_seq
    /\ seed' = draws
    /\ draws' = <<>>
    /\ cur_x' = <<>> /\ x_seq' = <<>> /\ iter' = <<>>
    /\ pc' = "start"
    /\ UNCHANGED <<schedVars, helperVars, pcaVars, diffs, model, fn, out_args, num_to_gen, e, calls, output, trainVars, lossVars>>

InitSampleTwice == InitSample /\ fn = "get_model_output"

NextSampleTwice == NextSample \/ SampleAgain

SpecSampleTwice == InitSampleTwice /\ [][NextSampleTwice]_vars

\* C2: for every n_steps = T >= 1 both sampling loops end after exactly T
\* steps, and the network is queried once per step, at the timesteps
\* T-1, T-2, ..., 0 in this order
C2_ExactlyTSteps ==
    /\ [](\A j \in 1..Len(calls) : calls[j].t = <<diffs.num_steps - j>>)
    /\ [](Len(calls) <= diffs.num_steps)
    /\ <>[](pc = "done" /\ Len(calls) = diffs.num_steps)

C2_Witness ==
    /\ pc = "done"
    /\ diffs.num_steps = MaxSteps
    /\ Len(calls) = MaxSteps

\* C3: the trajectory of p_sample_loop has T+1 elements, the first is the
\* initial noise, element j is p_sample of element j-1 at timestep T-j, and
\* get_model_output returns element T
C3_Trajectory ==
    (pc = "done" /\ fn = "get_model_output") =>
        LET T == diffs.num_steps IN
        /\ Len(x_seq) = T + 1
        /\ x_seq[1] = draws[1]
        /\ \A j \in 1..T :
              x_seq[j + 1] = p_sample(model, x_seq[j], <<>>, T - j, draws[j + 1], diffs)
        /\ output = x_seq[T + 1]

C3_Witness ==
    /\ pc = "done"
    /\ fn = "get_model_output"
    /\ diffs.num_steps = MaxSteps
    /\ output # x_seq[1]

\* C4: every query of p_tabular_sample_loop passes the same discrete
\* conditioning e, the one the loop was called with
C4_FixedConditioning ==
    fn = "p_tabular_sample_loop" =>
        \A j \in 1..Len(calls) : calls[j].e = e /\ calls[j].x = x_seq[j]

C4_Witness ==
    /\ fn = "p_tabular_sample_loop"
    /\ pc = "done"
    /\ Len(calls) = MaxSteps
    /\ calls[1].x # calls[Len(calls)].x


(***************************************************************************)
(* Training loop: reverse_tabular_diffusion                                *)
(***************************************************************************)
\* largest number of training rows
MaxRows == 3
\* largest number of epochs (training_time_steps)
MaxEpochs == 2

\* torch.randperm(n): the permutations of 0..n-1
Randperm(n) ==
    {p \in [1..n -> 0..(n - 1)] : \A a, b \in 1..n : a # b => p[a] # p[b]}

\* every batch starts at the same place
SliceFromStart(v, i, size) ==
    [j \in 1..(IF size <= Len(v) THEN size ELSE Len(v)) |-> v[j]]

\* v[i:i+size] of a vector (0-based, clipped at the end)
Slice(v, i, size) ==
    [j \in 1..(IF i + size <= Len(v) THEN size ELSE Len(v) - i) |-> v[i + j]]

\* data[indices]: the rows of data at the given 0-based indices
Rows(data, indices) == [j \in 1..Len(indices) |-> data[indices[j] + 1]]

\* the layout of a single discrete feature with k classes
OneFeature(k) == << <<0, k>> >>

\* the concatenation of a sequence of rows (torch.cat(..., dim=1) of one row)
Concat[rows \in Seq(Seq(Int))] ==
    IF rows = <<>> THEN <<>> ELSE rows[1] \o Concat[Tail(rows)]

\* an encoding that takes end, not end - start, for the number of classes
ToOneHotToEnd(data, fi) ==
    [r \in 1..Len(data) |->
        Concat[[i \in 1..Len(fi) |-> one_hot(data[r][i], fi[i][2])]]]

\* to_one_hot(data, feature_indices = fi): column i of data is encoded over
\* end - start classes, the blocks are concatenated in feature order
to_one_hot(data, fi) ==
    [r \in 1..Len(data) |->
        Concat[[i \in 1..Len(fi) |-> one_hot(data[r][i], fi[i][2] - fi[i][1])]]]

\* the validation rows: the category index of the one discrete feature
ValidationSet == [r \in 1..2 |-> <<(r - 1) % MaxCard>>]

\* the synthetic training set of n records: record r holds the continuous
\* value r and the class r mod k, so that a row tells its record
InitTrain ==
    /\ ScheduleIdle
    /\ HelperIdle
    /\ PcaIdle
    /\ diffs = Diffusion(MaxSteps, RNorm[1, 4], RNorm[1, 2])
    /\ model = "zero"
    /\ SamplerIdle
    /\ LossIdle
    /\ tpc = "epoch"
    /\ show_loss \in BOOLEAN
    /\ discrete_vl = ValidationSet
    /\ vl_fed = <<>>
    /\ training_loss_list = <<>> /\ validation_loss_list = <<>>
    /\ discrete_distribution_list = <<>> /\ es_stopped = FALSE /\ train_ret = <<>>
    /\ \E n \in 1..MaxRows :
        /\ continuous_tr = [r \in 1..n |-> RInt(r - 1)]
        /\ discrete_tr = [r \in 1..n |-> <<(r - 1) % MaxCard>>]
    /\ batch_size \in 1..MaxRows
    /\ training_time_steps \in 1..MaxEpochs
    /\ epoch = 0
    /\ permutation_discrete = <<>> /\ permutation_continuous = <<>>
    /\ batch_start = 0 /\ indices_discrete = <<>> /\ indices_continuous = <<>>
    /\ batch_x_discrete = <<>> /\ batch_x_continuous = <<>> /\ optimizer_steps = 0
    /\ randperm_calls = 0 /\ epoch_batches = <<>> /\ train_log = <<>>

\* the head of the epoch loop: both permutations are drawn
TrainEpochBegin ==
    /\ tpc = "epoch"
    /\ epoch < training_time_steps
    /\ permutation_discrete' \in Randperm(Len(discrete_tr))
    /\ permutation_continuous' \in Randperm(Len(continuous_tr))
    /\ randperm_calls' = randperm_calls + 2
    /\ epoch_batches' = <<>>
    /\ batch_start' = 0
    /\ tpc' = "batch"
    /\ UNCHANGED <<schedVars, helperVars, pcaVars, diffs, model, samplerVars, lossVars, discrete_tr, continuous_tr, batch_size,
                   training_time_steps, epoch, indices_discrete, indices_continuous,
                   batch_x_discrete, batch_x_continuous, optimizer_steps, train_log,
                   tailVars>>

\* max_norm of clip_grad_norm_
ClipMaxNorm == 1

\* the calls of one batch in another order: the update before the clipping
StepBeforeClip ==
    << [op |-> "zero_grad"], [op |-> "backward"], [op |-> "step"],
       [op |-> "clip_grad_norm_", max_norm |-> ClipMaxNorm], [op |-> "ema.update"] >>

\* the calls that follow the loss of one batch, in the order of the code
BatchCalls ==
    << [op |-> "zero_grad"], [op |-> "backward"],
       [op |-> "clip_grad_norm_", max_norm |-> ClipMaxNorm],
       [op |-> "step"], [op |-> "ema.update"] >>

\* one iteration of the batch loop: the batch is retrieved and one-hot
\* encoded, the losses are computed and one optimizer step is made
TrainBatch ==
    /\ tpc = "batch"
    /\ batch_start < Len(continuous_tr)
    /\ LET idx_d == Slice(permutation_discrete, batch_start, batch_size)
           idx_c == Slice(permutation_continuous, batch_start, batch_size)
       IN  /\ indices_discrete' = idx_d
           /\ indices_continuous' = idx_c
           /\ batch_x_discrete' = to_one_hot(Rows(discrete_tr, idx_d), OneFeature(MaxCard))
           /\ batch_x_continuous' = Rows(continuous_tr, idx_c)
           /\ epoch_batches' = Append(epoch_batches, [discrete |-> idx_d, continuous |-> idx_c])
    /\ train_log' = train_log \o BatchCalls
    /\ optimizer_steps' = optimizer_steps + 1
    /\ batch_start' = batch_start + batch_size
    /\ UNCHANGED <<schedVars, helperVars, pcaVars, diffs, model, samplerVars, lossVars, tpc, discrete_tr, continuous_tr, batch_size,
                   training_time_steps, epoch, permutation_discrete,
                   permutation_continuous, randperm_calls, tailVars>>

\* the values of a loss that the test of line 294 tells apart: zero or not
LossValues == {0, 1}

\* the progress report is due when t % (training_time_steps // 10) == 0
ProgressParts == 10

\* a loop that goes on with the next epoch after the early stop
ContinueAfterStop == "epoch"

\* break: the position after the epoch loop
AfterEarlyStop == "stopped"

\* a loss appended in every epoch, whatever the tests say
CollectedAlways(list, value, reached) == Append(list, value)

\* list.append(value) of lines 318-319, reached only past the test of the
\* losses and past the early stopper
Collected(list, value, reached) == IF reached THEN Append(list, value) ELSE list

\* what the rest of the epoch reads of the four losses tr_multinomial_loss,
\* tr_continuous_loss, vl_multinomial_loss and vl_continuous_loss: whether
\* they and their sums are all non-zero (line 294) and, if so, the sums
EpochLosses ==
    {LET training_loss == l[1] + l[2]
         validation_loss == l[3] + l[4]
         nonzero == /\ training_loss # 0 /\ validation_loss # 0
                    /\ l[2] # 0 /\ l[1] # 0 /\ l[4] # 0 /\ l[3] # 0
     IN  [nonzero |-> nonzero,
          training_loss |-> IF nonzero THEN training_loss ELSE 0,
          validation_loss |-> IF nonzero THEN validation_loss ELSE 0] :
       l \in [1..4 -> LossValues]}

\* discrete_distribution[0] of get_tabular_model_output(model, k, 1000,
\* feature_indices, ..., calculate_continuous=False): the network's discrete
\* distribution for the first generated row, for every draw of e and g
DistributionRows ==
    {ForwardDiscrete(model, g, cond, <<0>>, OneFeature(MaxCard))[1] :
        cond \in RandomOneHot(1, MaxCard), g \in Randn(1)}

\* the batch loop is exhausted: the rest of the epoch.  The validation rows
\* are one-hot encoded into discrete_vl itself and given to the losses, the
\* discrete distribution is collected; if every loss is non-zero the
\* progress test is evaluated, the early stopper is asked and, unless it
\* stops the loop, the losses are collected.  The losses are those of the
\* last batch and of the validation set; the early stopper's answer is an
\* input.  A one-hot matrix holds only 0 and 1, class indices that one_hot
\* accepts for two classes or more.  The permutations and the batch of
\* the finished epoch are not read again (each is reassigned before its
\* next use) and are dropped here.
TrainEpochEnd ==
    /\ tpc = "batch"
    /\ batch_start >= Len(continuous_tr)
    /\ \E losses \in EpochLosses, discrete_distribution \in DistributionRows :
        LET fed == to_one_hot(discrete_vl, OneFeature(MaxCard))
            training_loss == losses.training_loss
            validation_loss == losses.validation_loss
            nonzero == losses.nonzero
            raises == nonzero /\ show_loss /\ training_time_steps \div ProgressParts = 0
        IN
        \E stop \in IF nonzero /\ ~raises THEN BOOLEAN ELSE {FALSE} :
        LET stops == nonzero /\ ~raises /\ stop
            collected == nonzero /\ ~raises /\ ~stops
        IN  /\ discrete_vl' = fed
            /\ vl_fed' = Append(vl_fed, fed)
            /\ discrete_distribution_list' =
                  Append(discrete_distribution_list, discrete_distribution)
            /\ tpc' = IF raises THEN "ZeroDivisionError"
                      ELSE IF stops THEN AfterEarlyStop ELSE "epoch"
            /\ es_stopped' = stops
            /\ epoch' = IF raises \/ stops THEN epoch ELSE epoch + 1
            /\ training_loss_list' =
                  Collected(training_loss_list, training_loss, collected)
            /\ validation_loss_list' =
                  Collected(validation_loss_list, validation_loss, collected)
    /\ permutation_discrete' = <<>> /\ permutation_continuous' = <<>>
    /\ indices_discrete' = <<>> /\ indices_continuous' = <<>>
    /\ batch_x_discrete' = <<>> /\ batch_x_continuous' = <<>>
    /\ epoch_batches' = <<>>
    /\ UNCHANGED <<schedVars, helperVars, pcaVars, diffs, model, samplerVars, lossVars,
                   discrete_tr, continuous_tr, batch_size, training_time_steps, batch_start,
                   optimizer_steps, randperm_calls, train_log, show_loss, train_ret>>

\* the epoch loop is exhausted or was left by break: the function returns
\* the model and the three lists
TrainReturn ==
    /\ \/ tpc = "epoch" /\ epoch >= training_time_steps
       \/ tpc = "stopped"
    /\ tpc' = "done"
    /\ train_ret' = [model |-> model,
                     training_loss_list |-> training_loss_list,
                     validation_loss_list |-> validation_loss_list,
                     discrete_distribution_list |-> discrete_distribution_list]
    /\ UNCHANGED <<schedVars, helperVars, pcaVars, diffs, model, samplerVars, lossVars,
                   discrete_tr, continuous_tr, batch_size,
                   training_time_steps, epoch, permutation_discrete,
                   permutation_continuous, batch_start, indices_discrete,
                   indices_continuous, batch_x_discrete, batch_x_continuous,
                   optimizer_steps, randperm_calls, epoch_batches, train_log,
                   show_loss, discrete_vl, vl_fed, training_loss_list,
                   validation_loss_list, discrete_distribution_list, es_stopped>>

NextTrain == TrainEpochBegin \/ TrainBatch \/ TrainEpochEnd \/ TrainReturn

SpecTrain == InitTrain /\ [][NextTrain]_vars /\ WF_vars(NextTrain)

\* the record (0-based index) a continuous training row comes from
RecordOfContinuous(v) == CHOOSE r \in 0..(Len(continuous_tr) - 1) : continuous_tr[r + 1] = v

\* C1: in every training batch, row j of the continuous batch and row j of
\* the discrete batch come from the same dataset record
C1_RowAligned ==
    /\ indices_discrete = indices_continuous
    /\ \A j \in 1..Len(batch_x_continuous) :
          batch_x_discrete[j] =
              to_one_hot(<<discrete_tr[RecordOfContinuous(batch_x_continuous[j]) + 1]>>,
                         OneFeature(MaxCard))[1]


(***************************************************************************)
(* Loss estimators                                                         *)
(***************************************************************************)
\* largest batch of loss_variational
MaxBatch == 3
\* largest batch of the two noise estimation losses
MaxCatBatch == 2

\* torch.randint(0, n_steps, size=(batch_size // 2 + 1,))
Randint(n_steps, size) == [1..((size \div 2) + 1) -> 0..(n_steps - 1)]

\* the mirror taken as n_steps - t
MirrorOffByOne(draw, n_steps, size) ==
    LET cat == draw \o [j \in 1..Len(draw) |-> n_steps - draw[j]]
    IN  [j \in 1..size |-> cat[j]]

\* torch.cat([t, n_steps - t - 1], dim=0)[:batch_size]
Antithetic(draw, n_steps, size) ==
    LET cat == draw \o [j \in 1..Len(draw) |-> n_steps - draw[j] - 1]
    IN  [j \in 1..(IF size <= Len(cat) THEN size ELSE Len(cat)) |-> cat[j]]

\* x[:, start:end] of one row
Cols(row, start, end) == [c \in 1..(end - start) |-> row[start + c]]

\* get_probs(data): the column sums over their total
get_probs(data) ==
    LET k == Len(data[1])
        ColSum[c \in 1..k, n \in 0..Len(data)] ==
            IF n = 0 THEN 0 ELSE ColSum[c, n - 1] + data[n][c]
        Total[c \in 0..k] == IF c = 0 THEN 0 ELSE Total[c - 1] + ColSum[c, Len(data)]
    IN  [c \in 1..k |-> RNorm[ColSum[c, Len(data)], Total[k]]]

\* the distribution with the data's own probabilities not scaled by the
\* cumulative alpha
XtProbsNoDecay(x_0, d, ts, k) ==
    LET probs == get_probs(x_0)
        cumprod_1_minus_alpha == extract(d.one_minus_alphas_bar_sqrt, ts)
    IN  [i \in 1..Len(x_0) |->
            [c \in 1..k |-> RAdd[probs[c], RDiv[cumprod_1_minus_alpha[i], RInt(k)]]]]

\* q_x_cat, the distribution it resamples from:
\* x_t_probs = cumprod_alpha*probs + cumprod_1_minus_alpha / k
XtProbs(x_0, d, ts, k) ==
    LET probs == get_probs(x_0)
        cumprod_alpha == extract(d.alphas_prod, ts)
        cumprod_1_minus_alpha == extract(d.one_minus_alphas_bar_sqrt, ts)
    IN  [i \in 1..Len(x_0) |->
            [c \in 1..k |->
                RAdd[RMul[cumprod_alpha[i], probs[c]],
                     RDiv[cumprod_1_minus_alpha[i], RInt(k)]]]]

\* resample(distribution): torch.multinomial draws, for every row, a class
\* of positive weight
resample(distribution) ==
    {x \in [1..Len(distribution) -> 0..(Len(distribution[1]) - 1)] :
        \A i \in 1..Len(distribution) : distribution[i][x[i] + 1][1] > 0}

\* q_x_cat(x_0, diffs, t, k): every value it can return
q_x_cat(x_0, d, ts, k) ==
    {[i \in 1..Len(x_0) |-> one_hot(x_t[i], k)] : x_t \in resample(XtProbs(x_0, d, ts, k))}

\* torch.nn.functional.normalize(v, p=1, dim=1) of one row: v / max(|v|_1, eps);
\* eps = 1e-12 lies below every non-zero norm met here
L1Normalize(v) ==
    LET norm == RSum[[c \in 1..Len(v) |-> <<Abs(v[c][1]), v[c][2]>>]]
    IN  [c \in 1..Len(v) |-> IF norm = Zero THEN Zero ELSE RDiv[v[c], norm]]

\* theta normalized over the whole row
NormalizeRows(th, fi) == [i \in 1..Len(th) |-> L1Normalize(th[i])]

\* the normalization loop: every feature's slice of theta is L1-normalized,
\* the slices are concatenated
NormalizeFeatures(th, fi) ==
    [i \in 1..Len(th) |->
        LET ConcatTo[n \in 0..Len(fi)] ==
                IF n = 0 THEN <<>>
                ELSE ConcatTo[n - 1] \o L1Normalize(Cols(th[i], fi[n][1], fi[n][2]))
        IN  ConcatTo[Len(fi)]]

\* theta before normalization:
\* (alpha*batch_x_t + one_minus_alpha/k) * (alphas_prod*x_0 + one_minus_alpha_prod/k)
Theta(x_0, batch_x_t, d, ts, ts_1, k) ==
    LET alpha == extract(d.alphas, ts)
        alphas_prod == extract(d.alphas_prod, ts_1)
    IN  [i \in 1..Len(x_0) |->
            [c \in 1..Len(x_0[i]) |->
                RMul[RAdd[RMul[alpha[i], RInt(batch_x_t[i][c])],
                          RDiv[RSub[One, alpha[i]], RInt(k)]],
                     RAdd[RMul[alphas_prod[i], RInt(x_0[i][c])],
                          RDiv[RSub[One, alphas_prod[i]], RInt(k)]]]]]

\* t - 1 without the clamp
PreviousUnclamped(ts) == [i \in 1..Len(ts) |-> ts[i] - 1]

\* t_1 = t - 1; t_1[t_1 == -1] = 0
PreviousTimestep(ts) == [i \in 1..Len(ts) |-> IF ts[i] - 1 = -1 THEN 0 ELSE ts[i] - 1]

\* the layouts of the discrete block: one feature, two features
Layouts == {<< <<0, 2>> >>, << <<0, 2>>, <<2, 4>> >>}

\* the total number of classes k
NumClasses(fi) == fi[Len(fi)][2]

\* the two kinds of record of a batch: every feature at class 0, every
\* feature at class 1
RecordKinds(fi) == {[i \in 1..Len(fi) |-> c] : c \in 0..1}

\* end points of the beta schedule of the estimators: the range of the
\* constructor's own, and the extreme schedule from beta = 0 to beta = 1
LossEnds == {<<RNorm[1, 4], RNorm[1, 2]>>, <<Zero, One>>}

\* a batch of n records with every feature at class 0
PlainBatch(n, fi) == to_one_hot([r \in 1..n |-> [i \in 1..Len(fi) |-> 0]], fi)

\* the discrete batches of n records given to the categorical estimator:
\* every record of one kind, or the first record of the other kind
DiscreteBatches(n, fi) ==
    LET zeros == [i \in 1..Len(fi) |-> 0]
        ones == [i \in 1..Len(fi) |-> 1]
    IN  {to_one_hot(rows, fi) :
            rows \in {[r \in 1..n |-> zeros], [r \in 1..n |-> ones],
                      [r \in 1..n |-> IF r = 1 THEN ones ELSE zeros]}}

InitLoss ==
    /\ ScheduleIdle
    /\ HelperIdle
    /\ PcaIdle
    /\ \E T \in 1..MaxSteps, se \in LossEnds : diffs = Diffusion(T, se[1], se[2])
    /\ SamplerIdle
    /\ TrainIdle
    /\ lpc = "start"
    /\ \/ /\ lfn = "loss_variational"
          /\ model = "zero"
          /\ feature_indices = << <<0, 2>> >>
          /\ \E n \in 1..MaxBatch :
                /\ x_0_continuous = [r \in 1..n |-> RInt(r - 1)]
                /\ x_0_discrete = PlainBatch(n, feature_indices)
       \/ /\ lfn = "continuous_noise_estimation_loss"
          /\ model \in Nets
          /\ feature_indices = << <<0, 2>> >>
          /\ \E n \in 1..MaxCatBatch :
                /\ x_0_continuous \in {[r \in 1..n |-> RInt(r - 1)], [r \in 1..n |-> One]}
                /\ x_0_discrete = PlainBatch(n, feature_indices)
       \/ /\ lfn = "categorical_noise_estimation_loss"
          /\ model = "cond"
          /\ feature_indices \in Layouts
          /\ \E n \in 1..MaxCatBatch :
                /\ x_0_continuous = [r \in 1..n |-> RInt(r - 1)]
                /\ x_0_discrete \in DiscreteBatches(n, feature_indices)
    /\ drawn = <<>> /\ timesteps = <<>> /\ t_1 = <<>>
    /\ batch_x_list = <<>> /\ x_t_probs = <<>> /\ theta = <<>> /\ loss = <<>>

\* the first lines of every estimator: a timestep is selected for each row
DrawTimesteps ==
    /\ lpc = "start"
    /\ LET size == IF lfn = "categorical_noise_estimation_loss"
                   THEN Len(x_0_discrete) ELSE Len(x_0_continuous)
       IN  \E draw \in Randint(diffs.num_steps, size) :
              /\ drawn' = draw
              /\ timesteps' = Antithetic(draw, diffs.num_steps, size)
    /\ lpc' = "drawn"
    /\ UNCHANGED <<schedVars, helperVars, pcaVars, diffs, model, samplerVars, trainVars, lfn, x_0_continuous,
                   x_0_discrete, feature_indices, t_1, batch_x_list, x_t_probs,
                   theta, loss>>

\* categorical_noise_estimation_loss: t_1 is computed
CatPrevious ==
    /\ lpc = "drawn"
    /\ lfn = "categorical_noise_estimation_loss"
    /\ t_1' = PreviousTimestep(timesteps)
    /\ lpc' = "features"
    /\ UNCHANGED <<schedVars, helperVars, pcaVars, diffs, model, samplerVars, trainVars, lfn, x_0_continuous,
                   x_0_discrete, feature_indices, drawn, timesteps, batch_x_list,
                   x_t_probs, theta, loss>>

\* one iteration of the loop over feature_indices: the feature's block is
\* noised by q_x_cat
CatNoiseFeature ==
    /\ lpc = "features"
    /\ Len(batch_x_list) < Len(feature_indices)
    /\ LET index == feature_indices[Len(batch_x_list) + 1]
           feature == [r \in 1..Len(x_0_discrete) |->
                          Cols(x_0_discrete[r], index[1], index[2])]
           k_x == index[2] - index[1]
       IN  /\ x_t_probs' = Append(x_t_probs, XtProbs(feature, diffs, timesteps, k_x))
           /\ \E batch_feature \in q_x_cat(feature, diffs, timesteps, k_x) :
                 batch_x_list' = Append(batch_x_list, batch_feature)
    /\ UNCHANGED <<schedVars, helperVars, pcaVars, diffs, model, samplerVars, trainVars, lpc, lfn, x_0_continuous,
                   x_0_discrete, feature_indices, drawn, timesteps, t_1, theta, loss>>

\* the loop is exhausted: batch_x_t is concatenated, theta is computed and
\* normalized feature by feature
CatTheta ==
    /\ lpc = "features"
    /\ Len(batch_x_list) = Len(feature_indices)
    /\ LET batch_x_t == [r \in 1..Len(x_0_discrete) |->
                            Concat[[f \in 1..Len(batch_x_list) |-> batch_x_list[f][r]]]]
       IN  theta' = NormalizeFeatures(
                        Theta(x_0_discrete, batch_x_t, diffs, timesteps, t_1,
                              NumClasses(feature_indices)),
                        feature_indices)
    /\ lpc' = "theta"
    /\ UNCHANGED <<schedVars, helperVars, pcaVars, diffs, model, samplerVars, trainVars, lfn, x_0_continuous,
                   x_0_discrete, feature_indices, drawn, timesteps, t_1, batch_x_list,
                   x_t_probs, loss>>

\* torch.mean of a vector
Mean(v) == RDiv[RSum[v], RInt(Len(v))]

\* torch.multinomial(weights, n, replacement=True) with k uniform weights:
\* a class index per row
Multinomial(n, k) == [1..n -> 0..(k - 1)]

\* the network conditioned on the real discrete batch
ConditioningOnData(x0d, cdraw, k) == x0d

\* c of continuous_noise_estimation_loss: the one-hot encoding of the
\* multinomial draw cdraw, one row per row of x_0_discrete = x0d
Conditioning(x0d, cdraw, k) == [i \in 1..Len(x0d) |-> one_hot(cdraw[i], k)]

\* the network query of continuous_noise_estimation_loss for the batch
\* (x0c, x0d), the timesteps ts, the noise and the multinomial draw cdraw
ContinuousQuery(x0c, x0d, k, d, ts, noise, cdraw) ==
    LET a == extract(d.alphas_bar_sqrt, ts)
        am1 == extract(d.one_minus_alphas_bar_sqrt, ts)
        x == [i \in 1..Len(x0c) |-> RAdd[RMul[x0c[i], a[i]], RMul[noise[i], am1[i]]]]
    IN  Query(x, Conditioning(x0d, cdraw, k), ts)

\* the value continuous_noise_estimation_loss returns: (e - output).square().mean()
ContinuousLoss(net, x0c, x0d, k, d, ts, noise, cdraw) ==
    LET q == ContinuousQuery(x0c, x0d, k, d, ts, noise, cdraw)
        out == Forward(net, q.x, q.e, q.t)
    IN  Mean([i \in 1..Len(x0c) |->
                 RMul[RSub[noise[i], out[i]], RSub[noise[i], out[i]]]])

\* continuous_noise_estimation_loss after the timesteps: the noise and the
\* conditioning are drawn, the batch is noised, the network is queried and
\* the loss is returned
ContLoss ==
    /\ lpc = "drawn"
    /\ lfn = "continuous_noise_estimation_loss"
    /\ LET k == NumClasses(feature_indices)
       IN  \E noise \in Randn(Len(x_0_continuous)), cdraw \in Multinomial(Len(x_0_discrete), k) :
              /\ draws' = draws \o <<noise, cdraw>>
              /\ calls' = Append(calls, ContinuousQuery(x_0_continuous, x_0_discrete, k, diffs,
                                                        timesteps, noise, cdraw))
              /\ loss' = ContinuousLoss(model, x_0_continuous, x_0_discrete, k, diffs,
                                        timesteps, noise, cdraw)
    /\ lpc' = "done"
    /\ UNCHANGED <<schedVars, helperVars, pcaVars, diffs, model, pc, fn, out_args, num_to_gen, e, cur_x, x_seq, iter, output, seed,
                   first_run, trainVars, lfn, x_0_continuous, x_0_discrete, feature_indices, drawn,
                   timesteps, t_1, batch_x_list, x_t_probs, theta>>

\* the draws of the last step of categorical_noise_estimation_loss: the
\* multinomial draw puts every row in the first or every row in the last
\* class, torch.randn draws the same value for every row
CatClassDraws(n, k) == {[i \in 1..n |-> c] : c \in {0, k - 1}}
CatNoiseDraws(n) == {[i \in 1..n |-> z] : z \in Gauss}

\* the network given the real continuous batch
InputFromData(x0c, g) == x0c

\* the continuous input of the network in categorical_noise_estimation_loss:
\* g = torch.randn(x_0_continuous.shape)
CategoricalInput(x0c, g) == [i \in 1..Len(x0c) |-> g[i]]

\* the network query of categorical_noise_estimation_loss
CategoricalQuery(x0c, k, ts, edraw, g) ==
    Query(CategoricalInput(x0c, g), [i \in 1..Len(edraw) |-> one_hot(edraw[i], k)], ts)

\* the precision of the difference theta - output
LossScale == 64

\* a rounded down to a multiple of 1/scale
RFloor[a \in Rat, scale \in Nat] == RNorm[(a[1] * scale) \div a[2], scale]

\* the value categorical_noise_estimation_loss returns: (theta - output).square().mean()
CategoricalLoss(net, th, x0c, fi, k, ts, edraw, g) ==
    LET q == CategoricalQuery(x0c, k, ts, edraw, g)
        out == ForwardDiscrete(net, q.x, q.e, q.t, fi)
    IN  RDiv[RSum[[i \in 1..Len(th) |->
                     RSum[[c \in 1..Len(th[i]) |->
                             RSquare[RFloor[RSub[th[i][c], out[i][c]], LossScale]]]]]],
             RInt(Len(th) * k)]

\* the last step of categorical_noise_estimation_loss: the conditioning and
\* the continuous noise are drawn, the network is queried, the loss returned
CatQuery ==
    /\ lpc = "theta"
    /\ LET k == NumClasses(feature_indices)
       IN  \E edraw \in CatClassDraws(Len(x_0_discrete), k),
              g \in CatNoiseDraws(Len(x_0_continuous)) :
              /\ draws' = draws \o <<edraw, g>>
              /\ calls' = Append(calls, CategoricalQuery(x_0_continuous, k, timesteps, edraw, g))
              /\ loss' = CategoricalLoss(model, theta, x_0_continuous, feature_indices, k,
                                         timesteps, edraw, g)
    /\ lpc' = "done"
    /\ UNCHANGED <<schedVars, helperVars, pcaVars, diffs, model, pc, fn, out_args, num_to_gen, e, cur_x, x_seq, iter, output, seed,
                   first_run, trainVars, lfn, x_0_continuous, x_0_discrete, feature_indices, drawn,
                   timesteps, t_1, batch_x_list, x_t_probs, theta>>

NextLoss == DrawTimesteps \/ CatPrevious \/ CatNoiseFeature \/ CatTheta \/ CatQuery \/ ContLoss

SpecLoss == InitLoss /\ [][NextLoss]_vars

\* the number of rows of the estimator's batch
BatchRows ==
    IF lfn = "categorical_noise_estimation_loss" THEN Len(x_0_discrete)
    ELSE Len(x_0_continuous)

\* feature f's block of the one-hot batch
FeatureBlock(f) ==
    [r \in 1..Len(x_0_discrete) |->
        Cols(x_0_discrete[r], feature_indices[f][1], feature_indices[f][2])]

\* every beta of the schedule is positive, as in every schedule the
\* Diffusion constructor builds
PositiveBetas == \A s \in 1..diffs.num_steps : diffs.betas[s][1] > 0

\* C5: with every row at t = 0 and the cumulative alpha at t = 0 equal to 1,
\* q_x_cat returns x0 unchanged
C5_IdentityAtZeroNoise ==
    ((\A i \in 1..Len(timesteps) : timesteps[i] = 0) /\ diffs.alphas_prod[1] = One) =>
        \A f \in 1..Len(batch_x_list) : batch_x_list[f] = FeatureBlock(f)

\* C6: every row of the x_t_probs given to resample sums to 1
C6_ProbsSumToOne ==
    \A f \in 1..Len(x_t_probs) :
        RSum[get_probs(FeatureBlock(f))] = One =>
            \A i \in 1..Len(x_t_probs[f]) : RSum[x_t_probs[f][i]] = One

\* C7: a row whose cumulative alpha is 0 is resampled with weight 1/k on
\* each of the k classes, whatever x0 holds
C7_TerminalUniform ==
    \A f \in 1..Len(x_t_probs) : \A i \in 1..Len(x_t_probs[f]) :
        diffs.alphas_prod[timesteps[i] + 1] = Zero =>
            \A c \in 1..Len(x_t_probs[f][i]) :
                x_t_probs[f][i][c] = RNorm[1, Len(x_t_probs[f][i])]

C7_Witness ==
    \E f \in 1..Len(batch_x_list) : \E i \in 1..Len(x_t_probs[f]) :
        /\ diffs.alphas_prod[timesteps[i] + 1] = Zero
        /\ get_probs(FeatureBlock(f))[1] = One
        /\ batch_x_list[f][i] # FeatureBlock(f)[i]

\* C8 as stated: after the normalization every row of theta sums to 1
C8_RowsSumToOne ==
    (lpc = "theta" /\ PositiveBetas) =>
        \A i \in 1..Len(theta) : RSum[theta[i]] = One

\* C8 as amended: with positive betas every feature's slice of every row of
\* theta sums to 1, so a row sums to the number of features
C8_SlicesSumToOne ==
    (lpc = "theta" /\ PositiveBetas) =>
        \A i \in 1..Len(theta) :
            /\ \A f \in 1..Len(feature_indices) :
                  RSum[Cols(theta[i], feature_indices[f][1], feature_indices[f][2])] = One
            /\ RSum[theta[i]] = RInt(Len(feature_indices))

C8_Witness ==
    /\ lpc = "theta"
    /\ PositiveBetas
    /\ Len(feature_indices) = 2
    /\ Len(theta) = MaxCatBatch
    /\ \E i \in 1..Len(theta) : \E f \in 1..2 : batch_x_list[f][i] # FeatureBlock(f)[i]
    /\ \E i \in 1..Len(theta) : timesteps[i] = 0

\* C9: the timestep vector of every estimator has one entry per batch row,
\* each in [0, T)
C9_TimestepsInRange ==
    lpc # "start" =>
        /\ Len(timesteps) = BatchRows
        /\ \A i \in 1..Len(timesteps) : timesteps[i] \in 0..(diffs.num_steps - 1)

C9_Witness ==
    /\ lpc # "start"
    /\ BatchRows = MaxBatch
    /\ diffs.num_steps = MaxSteps
    /\ timesteps[1] = 0
    /\ timesteps[Len(drawn) + 1] = MaxSteps - 1

\* C10: ceil(N/2) timesteps are drawn, every row j >= ceil(N/2) carries the
\* mirror T-1-t[j-ceil(N/2)], and at most one drawn timestep lacks its mirror
C10_MirroredHalves ==
    lpc # "start" =>
        LET N == BatchRows
            half == (N + 1) \div 2
        IN  /\ Len(drawn) = half
            /\ \A j \in (half + 1)..N :
                  timesteps[j] = diffs.num_steps - 1 - timesteps[j - half]
            /\ Cardinality({j \in 1..Len(drawn) : Len(drawn) + j > Len(timesteps)}) <= 1


\* C11: t_1 is t-1 on every row with t >= 1 and 0 on every row with t = 0,
\* so no index that gathers alphas_prod is negative
C11_PreviousClamped ==
    (lfn = "categorical_noise_estimation_loss" /\ lpc \notin {"start", "drawn"}) =>
        /\ Len(t_1) = Len(timesteps)
        /\ \A i \in 1..Len(timesteps) :
              /\ timesteps[i] >= 1 => t_1[i] = timesteps[i] - 1
              /\ timesteps[i] = 0 => t_1[i] = 0
              /\ t_1[i] \in 0..(diffs.num_steps - 1)

C11_Witness ==
    /\ lfn = "categorical_noise_estimation_loss"
    /\ lpc = "theta"
    /\ \E i, j \in 1..Len(timesteps) :
          timesteps[i] = 0 /\ t_1[i] = 0 /\ timesteps[j] = 1 /\ t_1[j] = 0


\* the number of batches of one epoch: len(range(0, n, batch_size))
BatchesPerEpoch == (Len(continuous_tr) + batch_size - 1) \div batch_size

\* the (batch, position) pairs at which the windows of this epoch hold index r
UsesOf(r, stream) ==
    {bj \in (1..Len(epoch_batches)) \X (1..batch_size) :
        /\ bj[2] <= Len(epoch_batches[bj[1]][stream])
        /\ epoch_batches[bj[1]][stream][bj[2]] = r}

\* C12: within an epoch the batches are the consecutive windows of a
\* permutation of the training set, every row index is used in exactly one
\* batch once the epoch's last batch is done and in at most one before, the
\* permutations are drawn anew each epoch and every batch is given exactly
\* one optimizer step (for the discrete and for the continuous tensor alike)
C12_EpochWindows ==
    LET n == Len(continuous_tr)
        running == tpc = "batch"
        cut == es_stopped \/ tpc = "ZeroDivisionError"
        finished == running /\ batch_start >= n
        perms == [discrete |-> permutation_discrete, continuous |-> permutation_continuous]
    IN  /\ randperm_calls = 2 * (epoch + IF running \/ cut THEN 1 ELSE 0)
        /\ optimizer_steps = epoch * BatchesPerEpoch
                               + IF running THEN Len(epoch_batches)
                                 ELSE IF cut THEN BatchesPerEpoch ELSE 0
        /\ running =>
              \A stream \in {"discrete", "continuous"} :
                 /\ Len(perms[stream]) = n
                 /\ \A a \in 1..n : perms[stream][a] \in 0..(n - 1)
                 /\ \A a, b \in 1..n : a # b => perms[stream][a] # perms[stream][b]
                 /\ \A b \in 1..Len(epoch_batches) :
                       /\ Len(epoch_batches[b][stream]) >= 1
                       /\ \A j \in 1..Len(epoch_batches[b][stream]) :
                             epoch_batches[b][stream][j] =
                                 perms[stream][(b - 1) * batch_size + j]
                 /\ \A r \in 0..(n - 1) : Cardinality(UsesOf(r, stream)) <= 1
                 /\ finished => \A r \in 0..(n - 1) : Cardinality(UsesOf(r, stream)) = 1

C12_Witness ==
    /\ tpc = "batch"
    /\ epoch = MaxEpochs - 1
    /\ batch_start >= Len(continuous_tr)
    /\ Len(continuous_tr) = MaxRows
    /\ batch_size = 2
    /\ Len(epoch_batches) = BatchesPerEpoch
    /\ Len(epoch_batches[Len(epoch_batches)].discrete) < batch_size
    /\ optimizer_steps = MaxEpochs * BatchesPerEpoch
    /\ permutation_discrete[1] # 0

\* C13: for every batch the calls are, in this order, zero_grad, backward,
\* clip_grad_norm_ with max norm 1, step and ema.update: the clipping comes
\* before the update, the EMA update right after it, once per optimizer step
C13_StepOrder ==
    /\ Len(train_log) = 5 * optimizer_steps
    /\ \A b \in 0..(optimizer_steps - 1) :
          /\ train_log[5 * b + 1].op = "zero_grad"
          /\ train_log[5 * b + 2].op = "backward"
          /\ train_log[5 * b + 3].op = "clip_grad_norm_"
          /\ train_log[5 * b + 3].max_norm = 1
          /\ train_log[5 * b + 4].op = "step"
          /\ train_log[5 * b + 5].op = "ema.update"
    /\ Cardinality({i \in 1..Len(train_log) : train_log[i].op = "ema.update"}) = optimizer_steps
    /\ Cardinality({i \in 1..Len(train_log) : train_log[i].op = "step"}) = optimizer_steps

C13_Witness ==
    /\ tpc = "done"
    /\ optimizer_steps = MaxEpochs * MaxRows
    /\ Len(train_log) = 5 * MaxEpochs * MaxRows


\* the one-hot batches with as many rows as x_0_discrete
OtherDiscreteBatches ==
    {to_one_hot(rows, feature_indices) :
        rows \in [1..Len(x_0_discrete) -> RecordKinds(feature_indices)]}

\* C14: the conditioning passed to the network and the loss returned by
\* continuous_noise_estimation_loss are the same for every content of
\* x_0_discrete with the same number of rows, the draws being the same
C14_DiscreteBlind ==
    (lfn = "continuous_noise_estimation_loss" /\ lpc = "done") =>
        \A other \in OtherDiscreteBatches :
            LET k == NumClasses(feature_indices)
            IN  /\ ContinuousQuery(x_0_continuous, other, k, diffs, timesteps,
                                   draws[1], draws[2]).e = calls[1].e
                /\ ContinuousLoss(model, x_0_continuous, other, k, diffs, timesteps,
                                  draws[1], draws[2]) = loss

C14_Witness ==
    /\ lfn = "continuous_noise_estimation_loss"
    /\ lpc = "done"
    /\ model = "cond"
    /\ Len(x_0_discrete) = MaxCatBatch
    /\ calls[1].e # x_0_discrete
    /\ \E other \in OtherDiscreteBatches : other # x_0_discrete /\ other # calls[1].e


\* continuous batches with as many rows as x_0_continuous
OtherContinuousBatches ==
    {[r \in 1..Len(x_0_continuous) |-> One], [r \in 1..Len(x_0_continuous) |-> RInt(1 - r)]}

\* C15: the continuous input categorical_noise_estimation_loss gives the
\* network is the fresh Gaussian draw, one row per row of x_0_continuous,
\* and the loss is the same for every content of x_0_continuous
C15_ContinuousBlind ==
    (lfn = "categorical_noise_estimation_loss" /\ lpc = "done") =>
        /\ calls[1].x = draws[2]
        /\ Len(calls[1].x) = Len(x_0_continuous)
        /\ \A other \in OtherContinuousBatches :
              LET k == NumClasses(feature_indices)
              IN  /\ CategoricalQuery(other, k, timesteps, draws[1], draws[2]) = calls[1]
                  /\ CategoricalLoss(model, theta, other, feature_indices, k, timesteps,
                                     draws[1], draws[2]) = loss

C15_Witness ==
    /\ lfn = "categorical_noise_estimation_loss"
    /\ lpc = "done"
    /\ Len(x_0_continuous) = MaxCatBatch
    /\ calls[1].x # x_0_continuous
    /\ loss # Zero
    /\ \E other \in OtherContinuousBatches :
          ForwardDiscrete(model, other, calls[1].e, timesteps, feature_indices)
              # ForwardDiscrete(model, calls[1].x, calls[1].e, timesteps, feature_indices)


MaxSchedSteps == 3

\* the schedule argument: the three kinds, and a string the code does not
\* test for
Kinds == {"linear", "quad", "sigmoid", "quadratic"}

\* start and end: squares inside (0, 1), and the two ends of the interval
SchedEnds == {Zero, RNorm[1, 16], RNorm[1, 4], RNorm[9, 16], One}

\* the Diffusion object before any construction
NoDiffusion == Diffusion(0, Zero, Zero)

InitSchedule ==
    /\ sched_args \in [caller : {"make_beta_schedule", "Diffusion"}, schedule : Kinds,
                        n_timesteps : (-1)..MaxSchedSteps, start : SchedEnds, end : SchedEnds]
    /\ sched_args.caller = "Diffusion" => sched_args.schedule = "linear"
    /\ sched_out = [outcome |-> "pending"]
    /\ HelperIdle
    /\ PcaIdle
    /\ diffs = NoDiffusion
    /\ model = "zero"
    /\ SamplerIdle
    /\ TrainIdle
    /\ LossIdle

\* make_beta_schedule(schedule, n_timesteps, start, end) is called: it
\* checks none of its arguments; torch.linspace raises on a negative number
\* of steps and returns an empty tensor for 0 steps
ScheduleCall ==
    /\ sched_out.outcome = "pending"
    /\ sched_args.caller = "make_beta_schedule"
    /\ sched_out' =
          IF sched_args.n_timesteps < 0 THEN [outcome |-> "error"]
          ELSE [outcome |-> "returned",
                betas |-> make_beta_schedule(sched_args.schedule, sched_args.n_timesteps,
                                             sched_args.start, sched_args.end)]
    /\ UNCHANGED <<sched_args, helperVars, pcaVars, diffs, model, samplerVars, trainVars, lossVars>>

\* Diffusion(num_steps) is called, with the end points of its schedule
DiffusionInit ==
    /\ sched_out.outcome = "pending"
    /\ sched_args.caller = "Diffusion"
    /\ IF sched_args.n_timesteps < 0
       THEN sched_out' = [outcome |-> "error"] /\ diffs' = diffs
       ELSE LET d == Diffusion(sched_args.n_timesteps, sched_args.start, sched_args.end)
            IN  sched_out' = [outcome |-> "returned", betas |-> d.betas] /\ diffs' = d
    /\ UNCHANGED <<sched_args, helperVars, pcaVars, model, samplerVars, trainVars, lossVars>>

NextSchedule == ScheduleCall \/ DiffusionInit

SpecSchedule == InitSchedule /\ [][NextSchedule]_vars

\* start and end lie inside the open interval (0, 1)
InsideUnit(a) == RLess(Zero, a) /\ RLess(a, One)

\* the n values from a to b with equal steps
EquallySpaced(v, a, b, n) ==
    /\ Len(v) = n
    /\ v[1] = a
    /\ v[n] = b
    /\ \A i \in 1..(n - 2) : RSub[v[i + 1], v[i]] = RSub[v[i + 2], v[i + 1]]

\* C17 as stated: the linear schedule of T >= 1 values starts at start, ends
\* at end and is equally spaced in between
C17_InclusiveEndpoints ==
    (sched_out.outcome = "returned" /\ sched_args.schedule = "linear"
        /\ sched_args.n_timesteps >= 1) =>
        EquallySpaced(sched_out.betas, sched_args.start, sched_args.end,
                      sched_args.n_timesteps)

\* C17 as amended: for T >= 2 the linear schedule starts at start, ends at
\* end and is equally spaced; for T = 1 its only value is start
C17_EndpointsFromTwo ==
    (sched_out.outcome = "returned" /\ sched_args.schedule = "linear") =>
        /\ sched_args.n_timesteps >= 2 =>
              EquallySpaced(sched_out.betas, sched_args.start, sched_args.end,
                            sched_args.n_timesteps)
        /\ sched_args.n_timesteps = 1 => sched_out.betas = <<sched_args.start>>

C17_Witness ==
    /\ sched_out.outcome = "returned"
    /\ sched_args.schedule = "linear"
    /\ sched_args.n_timesteps = MaxSchedSteps
    /\ sched_args.start = RNorm[1, 16]
    /\ sched_args.end = RNorm[9, 16]
    /\ sched_out.betas[MaxSchedSteps] = RNorm[9, 16]
    /\ RLess(sched_out.betas[1], sched_out.betas[2])

\* C18: for T > 0 and 0 < start <= end < 1 the schedule Diffusion builds has
\* non-decreasing betas, alpha = 1 - beta, and a cumulative product that is
\* strictly decreasing with every value in [0, 1]
C18_ScheduleMonotone ==
    (sched_out.outcome = "returned" /\ sched_args.caller = "Diffusion"
        /\ sched_args.n_timesteps > 0
        /\ RLess(Zero, sched_args.start) /\ RLessEq(sched_args.start, sched_args.end)
        /\ RLess(sched_args.end, One)) =>
        LET T == sched_args.n_timesteps IN
        /\ diffs.num_steps = T
        /\ Len(diffs.betas) = T /\ Len(diffs.alphas) = T /\ Len(diffs.alphas_prod) = T
        /\ \A i \in 1..(T - 1) : RLessEq(diffs.betas[i], diffs.betas[i + 1])
        /\ \A i \in 1..T : RAdd[diffs.alphas[i], diffs.betas[i]] = One
        /\ \A i \in 1..(T - 1) : RLess(diffs.alphas_prod[i + 1], diffs.alphas_prod[i])
        /\ \A i \in 1..T : RLessEq(Zero, diffs.alphas_prod[i])
                                /\ RLessEq(diffs.alphas_prod[i], One)

C18_Witness ==
    /\ sched_out.outcome = "returned"
    /\ sched_args.caller = "Diffusion"
    /\ sched_args.n_timesteps = MaxSchedSteps
    /\ sched_args.start = RNorm[1, 4]
    /\ sched_args.end = RNorm[1, 4]
    /\ RLess(diffs.alphas_prod[MaxSchedSteps], diffs.alphas_prod[1])

\* the contract of the three kinds, the quadratic kind being named quadName
KindContract(quadName) ==
    (sched_out.outcome = "returned" /\ sched_args.caller = "make_beta_schedule"
        /\ sched_args.n_timesteps >= 1) =>
        LET T == sched_args.n_timesteps
            a == sched_args.start
            b == sched_args.end
            out == sched_out.betas
            line(lo, hi) == [i \in 1..T |->
                               IF T = 1 THEN lo
                               ELSE RAdd[lo, RDiv[RMul[RInt(i - 1), RSub[hi, lo]], RInt(T - 1)]]]
        IN  /\ Len(out) = T
            /\ sched_args.schedule = "linear" => out = line(a, b)
            /\ sched_args.schedule = quadName =>
                  /\ \A i \in 1..T : out[i] = RSquare[line(RSqrt[a], RSqrt[b])[i]]
                  /\ (a # b /\ T >= 3) => out # line(a, b)
            /\ sched_args.schedule = "sigmoid" =>
                  /\ \A i \in 1..T :
                        \/ RLessEq(a, out[i]) /\ RLessEq(out[i], b)
                        \/ RLessEq(b, out[i]) /\ RLessEq(out[i], a)
                  /\ \A i \in 1..(T - 1) :
                        IF RLess(a, b) THEN RLess(out[i], out[i + 1])
                        ELSE IF RLess(b, a) THEN RLess(out[i + 1], out[i])
                        ELSE out[i] = out[i + 1]

\* C19 as stated: the kinds 'linear', 'quadratic' and 'sigmoid' select their
\* interpolation, and 'quadratic' differs from 'linear' when start # end
\* and T >= 3
C19_KindSelects == KindContract("quadratic")

\* C19 as amended: the quadratic interpolation is selected by 'quad'
C19_QuadSelects == KindContract("quad")

C19_Witness ==
    /\ sched_out.outcome = "returned"
    /\ sched_args.caller = "make_beta_schedule"
    /\ sched_args.schedule = "quad"
    /\ sched_args.n_timesteps = MaxSchedSteps
    /\ sched_args.start = RNorm[1, 16]
    /\ sched_args.end = RNorm[9, 16]
    /\ sched_out.betas[1] = RNorm[1, 16]
    /\ sched_out.betas[2] = RNorm[1, 4]
    /\ sched_out.betas[MaxSchedSteps] = RNorm[9, 16]

\* C20: a construction with T <= 0, or with start or end outside the open
\* interval (0, 1), ends in an error instead of returning a schedule
C20_DegenerateRejected ==
    (sched_out.outcome \in {"returned", "error"}
        /\ (\/ sched_args.n_timesteps <= 0
            \/ ~InsideUnit(sched_args.start)
            \/ ~InsideUnit(sched_args.end))) =>
        sched_out.outcome = "error"


(***************************************************************************)
(* Helpers: extract, extract_cat, to_one_hot                               *)
(***************************************************************************)
\* largest rank of the tensor x given to extract
MaxRank == 3
\* largest length of the index vector t and of the matrix given to to_one_hot
MaxIndex == 2

\* the 1-D schedule of n distinct values
ScheduleOf(n) == [i \in 1..n |-> RNorm[i, n + 1]]

\* the shapes of x: every rank from 1 to MaxRank
Shapes == UNION {[1..r -> 1..2] : r \in 1..MaxRank}

\* the (start, end) pairs of a feature, contiguous or not
FeatureRanges == {<<a, a + w>> : a \in 0..MaxCard, w \in 1..MaxCard}

\* torch.gather(input, dim, index) of a 1-D input: dim 0 and dim -1 name
\* the same, only, dimension
gather(input, dim, index) ==
    LET d == IF dim < 0 THEN dim + 1 ELSE dim
    IN  [i \in 1..Len(index) |-> IF d = 0 THEN input[index[i] + 1] ELSE input[1]]

\* torch.gather raises on an index outside the input
GatherRaises(input, index) == \E i \in 1..Len(index) : index[i] \notin 0..(Len(input) - 1)

\* reshape = [t.shape[0]] + [1] * (len(shape) - 1)
ExtractShape(t, shape) == <<Len(t)>> \o [j \in 1..(Len(shape) - 1) |-> 1]

\* an extract_cat that returns the gathered values without reshaping
ExtractCatFlat(a, t, x_shape) == [shape |-> <<Len(t)>>, values |-> gather(a, -1, t)]

\* extract_cat(a, t, x_shape): out = a.gather(-1, t), reshaped to
\* (b, 1, ..., 1) with len(x_shape) - 1 ones
extract_cat(a, t, x_shape) ==
    [shape |-> <<Len(t)>> \o [j \in 1..(Len(x_shape) - 1) |-> 1],
     values |-> gather(a, -1, t)]

\* torch.nn.functional.one_hot raises on a class index outside 0..width-1
OneHotRaises(data, fi) ==
    \E r \in 1..Len(data), i \in 1..Len(fi) :
        data[r][i] \notin 0..(fi[i][2] - fi[i][1] - 1)

InitHelper ==
    /\ ScheduleIdle
    /\ PcaIdle
    /\ diffs = NoDiffusion
    /\ model = "zero"
    /\ SamplerIdle
    /\ TrainIdle
    /\ LossIdle
    /\ h_out = [outcome |-> "pending"]
    /\ \/ \E n \in 1..MaxSteps, b \in 1..MaxIndex :
            h_args \in [fn : {"extract", "extract_cat"}, input : {ScheduleOf(n)},
                        t : [1..b -> 0..n], x_shape : Shapes]
       \/ \E n \in 1..MaxIndex, f \in 1..2 :
            h_args \in [fn : {"to_one_hot"}, data : [1..n -> [1..f -> 0..MaxCard]],
                        feature_indices : [1..f -> FeatureRanges]]

\* extract(input, t, x) is called
ExtractCall ==
    /\ h_out.outcome = "pending"
    /\ h_args.fn = "extract"
    /\ h_out' =
          IF GatherRaises(h_args.input, h_args.t) THEN [outcome |-> "error"]
          ELSE [outcome |-> "returned",
                value |-> [shape |-> ExtractShape(h_args.t, h_args.x_shape),
                           values |-> extract(h_args.input, h_args.t)]]
    /\ UNCHANGED <<schedVars, h_args, pcaVars, diffs, model, samplerVars, trainVars, lossVars>>

\* extract_cat(a, t, x_shape) is called
ExtractCatCall ==
    /\ h_out.outcome = "pending"
    /\ h_args.fn = "extract_cat"
    /\ h_out' =
          IF GatherRaises(h_args.input, h_args.t) THEN [outcome |-> "error"]
          ELSE [outcome |-> "returned",
                value |-> extract_cat(h_args.input, h_args.t, h_args.x_shape)]
    /\ UNCHANGED <<schedVars, h_args, pcaVars, diffs, model, samplerVars, trainVars, lossVars>>

\* to_one_hot(data, feature_indices) is called: it reads end - start of
\* every range and nothing else of the layout
ToOneHotCall ==
    /\ h_out.outcome = "pending"
    /\ h_args.fn = "to_one_hot"
    /\ h_out' =
          IF OneHotRaises(h_args.data, h_args.feature_indices) THEN [outcome |-> "error"]
          ELSE [outcome |-> "returned",
                value |-> to_one_hot(h_args.data, h_args.feature_indices)]
    /\ UNCHANGED <<schedVars, h_args, pcaVars, diffs, model, samplerVars, trainVars, lossVars>>

NextHelper == ExtractCall \/ ExtractCatCall \/ ToOneHotCall

SpecHelper == InitHelper /\ [][NextHelper]_vars

\* the ranges are contiguous from 0: disjoint, and covering the block
\* 0..k-1 exactly
ContiguousFromZero(fi) ==
    /\ fi[1][1] = 0
    /\ \A i \in 1..(Len(fi) - 1) : fi[i + 1][1] = fi[i][2]

\* C21: a call of to_one_hot whose ranges overlap or do not exactly cover
\* the one-hot block ends in an error
C21_LayoutRejected ==
    (h_args # <<>> /\ h_args.fn = "to_one_hot" /\ h_out.outcome # "pending"
        /\ ~ContiguousFromZero(h_args.feature_indices)) =>
        h_out.outcome = "error"

\* C22: extract returns input[t[i]] for every row i, in a tensor of shape
\* [len(t), 1, ..., 1] of the rank of x, for every t inside the schedule
C22_ExtractGathers ==
    (h_args # <<>> /\ h_args.fn = "extract"
        /\ (\A i \in 1..Len(h_args.t) : h_args.t[i] \in 0..(Len(h_args.input) - 1))
        /\ h_out.outcome # "pending") =>
        /\ h_out.outcome = "returned"
        /\ Len(h_out.value.shape) = Len(h_args.x_shape)
        /\ h_out.value.shape[1] = Len(h_args.t)
        /\ \A j \in 2..Len(h_args.x_shape) : h_out.value.shape[j] = 1
        /\ Len(h_out.value.values) = Len(h_args.t)
        /\ \A i \in 1..Len(h_args.t) :
              h_out.value.values[i] = h_args.input[h_args.t[i] + 1]

C22_Witness ==
    /\ h_args # <<>> /\ h_args.fn = "extract"
    /\ h_out.outcome = "returned"
    /\ Len(h_args.x_shape) = MaxRank
    /\ Len(h_args.t) = MaxIndex
    /\ h_args.t[1] # h_args.t[2]
    /\ h_out.value.values[1] # h_out.value.values[2]

\* C26: to_one_hot encodes column i into a block of width end_i - start_i
\* with exactly one 1 per row, at the offset of the category index; the
\* blocks follow each other in feature order, so the width is the sum of
\* the widths and, for ranges contiguous from 0, block i lies in columns
\* start_i .. end_i - 1
C26_BlocksInOrder ==
    (h_args # <<>> /\ h_args.fn = "to_one_hot" /\ h_out.outcome = "returned") =>
        LET fi == h_args.feature_indices
            width(i) == fi[i][2] - fi[i][1]
            offset[i \in 1..Len(fi)] == IF i = 1 THEN 0 ELSE offset[i - 1] + width(i - 1)
            total == offset[Len(fi)] + width(Len(fi))
        IN  /\ Len(h_out.value) = Len(h_args.data)
            /\ \A r \in 1..Len(h_args.data) :
                  /\ Len(h_out.value[r]) = total
                  /\ \A i \in 1..Len(fi) : \A c \in 0..(width(i) - 1) :
                        h_out.value[r][offset[i] + c + 1] =
                            IF c = h_args.data[r][i] THEN 1 ELSE 0
            /\ ContiguousFromZero(fi) => \A i \in 1..Len(fi) : offset[i] = fi[i][1]

C26_Witness ==
    /\ h_args # <<>> /\ h_args.fn = "to_one_hot"
    /\ h_out.outcome = "returned"
    /\ h_args.feature_indices = << <<0, 1>>, <<1, 1 + MaxCard>> >>
    /\ Len(h_args.data) = MaxIndex
    /\ h_args.data[1] = <<0, MaxCard - 1>>
    /\ h_out.value[1][1 + MaxCard] = 1

\* C27: extract and extract_cat return the same values in the same shape
\* for every 1-D schedule, every index vector inside it and every shape
C27_SameAsExtractCat ==
    (h_args # <<>> /\ h_args.fn \in {"extract", "extract_cat"}
        /\ h_out.outcome = "returned") =>
        /\ h_args.fn = "extract" =>
              h_out.value = extract_cat(h_args.input, h_args.t, h_args.x_shape)
        /\ h_args.fn = "extract_cat" =>
              h_out.value = [shape |-> ExtractShape(h_args.t, h_args.x_shape),
                             values |-> extract(h_args.input, h_args.t)]

C27_Witness ==
    /\ h_args # <<>> /\ h_args.fn = "extract_cat"
    /\ h_out.outcome = "returned"
    /\ Len(h_args.x_shape) = MaxRank
    /\ Len(h_args.t) = MaxIndex
    /\ h_out.value.shape = <<MaxIndex>> \o [j \in 1..(MaxRank - 1) |-> 1]
    /\ h_out.value.values[1] # h_out.value.values[2]


(***************************************************************************)
(* recursive_pca                                                           *)
(***************************************************************************)
\* largest contour_levels of the first call
MaxContour == 25
\* the calls the interpreter's stack holds before it raises RecursionError
MaxFrames == 4
\* the retry lowers contour_levels by 10
ContourStep == 10

\* recursive_pca(true_batch, fake_batch, contour_levels) is called
InitPca ==
    /\ ScheduleIdle
    /\ HelperIdle
    /\ diffs = NoDiffusion
    /\ model = "zero"
    /\ SamplerIdle
    /\ TrainIdle
    /\ LossIdle
    /\ rpc = "entry"
    /\ contour_levels \in 1..MaxContour
    /\ frames = 1
    /\ pca_warned = FALSE
    /\ pca_raises \in BOOLEAN

\* contour_levels == 0: the warning, and the return through every frame
\* (each except clause ends after its recursive call)
PcaWarn ==
    /\ rpc = "entry"
    /\ contour_levels = 0
    /\ pca_warned' = TRUE
    /\ frames' = 0
    /\ rpc' = "returned"
    /\ UNCHANGED <<schedVars, helperVars, contour_levels, pca_raises, diffs, model,
                   samplerVars, trainVars, lossVars>>

\* perform_pca returns: so does every frame
PcaPlot ==
    /\ rpc = "entry"
    /\ contour_levels # 0
    /\ ~pca_raises
    /\ frames' = 0
    /\ rpc' = "returned"
    /\ UNCHANGED <<schedVars, helperVars, contour_levels, pca_warned, pca_raises, diffs,
                   model, samplerVars, trainVars, lossVars>>

\* perform_pca raises ValueError: the except clause calls
\* recursive_pca(..., contour_levels - 10)
PcaRetry ==
    /\ rpc = "entry"
    /\ contour_levels # 0
    /\ frames < MaxFrames
    /\ contour_levels' = contour_levels - ContourStep
    /\ frames' = frames + 1
    /\ UNCHANGED <<schedVars, helperVars, rpc, pca_warned, pca_raises, diffs, model,
                   samplerVars, trainVars, lossVars>>

\* the same with the stack full: the call raises RecursionError, which no
\* except clause of recursive_pca catches
PcaStackFull ==
    /\ rpc = "entry"
    /\ contour_levels # 0
    /\ frames >= MaxFrames
    /\ frames' = 0
    /\ rpc' = "RecursionError"
    /\ UNCHANGED <<schedVars, helperVars, contour_levels, pca_warned, pca_raises, diffs,
                   model, samplerVars, trainVars, lossVars>>

NextPca == PcaWarn \/ PcaPlot \/ PcaRetry \/ PcaStackFull

\* recursive_pca is synchronous code: it runs until it returns or raises
SpecPca == InitPca /\ [][NextPca]_vars /\ WF_vars(NextPca)

\* C30: when perform_pca raises ValueError on every attempt, recursive_pca
\* reaches contour_levels = 0 and returns after the warning, for every
\* positive contour_levels of the first call
C30_ReachesZero ==
    (rpc = "entry" /\ pca_raises) ~> (rpc = "returned" /\ pca_warned /\ contour_levels = 0)


(***************************************************************************)
(* get_tabular_model_output                                                *)
(***************************************************************************)
\* the whole row in place of the columns of one feature
WholeRow(distribution, range) == distribution

\* discrete_distribution[:, start:end] of the feature with range (start, end)
FeatureSlice(distribution, range) ==
    [i \in 1..Len(distribution) |-> Cols(distribution[i], range[1], range[2])]

\* get_tabular_model_output(model, k, sample_size, feature_indices, 1,
\* diffusion, calculate_continuous) is called; the continuous sampler is
\* run for one row
InitOutput ==
    /\ ScheduleIdle
    /\ HelperIdle
    /\ PcaIdle
    /\ \E T \in 1..MaxSteps : diffs = Diffusion(T, RNorm[1, 4], RNorm[1, 2])
    /\ model \in {"zero", "cond"}
    /\ pc = "call"
    /\ fn = "get_tabular_model_output"
    /\ out_args \in [feature_indices : Layouts, calculate_continuous : BOOLEAN]
    /\ num_to_gen \in 1..MaxGen
    /\ out_args.calculate_continuous => num_to_gen = 1
    /\ e = <<>> /\ cur_x = <<>> /\ x_seq = <<>> /\ iter = <<>> /\ calls = <<>>
    /\ draws = <<>> /\ output = <<>> /\ seed = <<>> /\ first_run = <<>>
    /\ TrainIdle
    /\ LossIdle

\* e and g are drawn; with calculate_continuous the continuous sampler
\* p_tabular_sample_loop runs next
OutputDraw ==
    /\ pc = "call"
    /\ \E cond \in RandomOneHot(num_to_gen, NumClasses(out_args.feature_indices)),
          g \in Randn(num_to_gen) :
        /\ e' = cond
        /\ draws' = <<cond, g>>
    /\ pc' = IF out_args.calculate_continuous THEN "start" ELSE "discrete"
    /\ UNCHANGED <<schedVars, helperVars, pcaVars, diffs, model, fn, out_args, num_to_gen,
                   cur_x, x_seq, iter, calls, output, seed, first_run, trainVars, lossVars>>

\* the network is queried at (g, e, t = 0) and every feature's slice of its
\* discrete distribution is resampled into one column of discrete_output
OutputDiscrete ==
    /\ pc = "discrete"
    /\ LET fi == out_args.feature_indices
           g == draws[2]
           y == [i \in 1..num_to_gen |-> 0]
           discrete_distribution == ForwardDiscrete(model, g, e, y, fi)
       IN  \E cols \in [1..Len(fi) -> [1..num_to_gen -> 0..(NumClasses(fi) - 1)]] :
            /\ \A f \in 1..Len(fi) :
                  cols[f] \in resample(FeatureSlice(discrete_distribution, fi[f]))
            /\ output' =
                  [continuous_output |->
                       IF out_args.calculate_continuous THEN output ELSE 1,
                   discrete_output |->
                       [i \in 1..num_to_gen |-> [f \in 1..Len(fi) |-> cols[f][i]]],
                   discrete_distribution |-> discrete_distribution[1]]
            /\ calls' = Append(calls, Query(g, e, y))
    /\ pc' = "done"
    /\ UNCHANGED <<schedVars, helperVars, pcaVars, diffs, model, fn, out_args, num_to_gen, e,
                   cur_x, x_seq, iter, draws, seed, first_run, trainVars, lossVars>>

NextOutput == OutputDraw \/ SampleBegin \/ SampleStep \/ SampleReturn \/ OutputDiscrete

SpecOutput == InitOutput /\ [][NextOutput]_vars

ReturnValue ==
    [model |-> model,
     training_loss_list |-> training_loss_list,
     validation_loss_list |-> validation_loss_list,
     discrete_distribution_list |-> discrete_distribution_list]

\* C23: once the early stopper has signalled stop, the only step left is
\* the return: no permutation is drawn, no batch trained and no optimizer
\* step made, and the function returns the model and the collected lists
\* without an error
C23_EarlyStopReturns ==
    /\ [][es_stopped =>
            /\ tpc' = "done"
            /\ optimizer_steps' = optimizer_steps
            /\ randperm_calls' = randperm_calls
            /\ train_log' = train_log
            /\ epoch' = epoch
            /\ train_ret' = ReturnValue]_vars
    /\ (es_stopped ~> (tpc = "done" /\ train_ret = ReturnValue))

C23_Witness ==
    /\ es_stopped
    /\ tpc = "done"
    /\ epoch = 0
    /\ training_time_steps = MaxEpochs
    /\ optimizer_steps = BatchesPerEpoch
    /\ Len(train_ret.discrete_distribution_list) = 1
    /\ train_ret.training_loss_list = <<>>

\* C24: the matrix given to the validation loss is, in every epoch, the
\* one-hot encoding of the original validation category indices
C24_SameValidationMatrix ==
    \A n \in 1..Len(vl_fed) : vl_fed[n] = to_one_hot(ValidationSet, OneFeature(MaxCard))

\* the epochs whose validation was computed
ValidatedEpochs == epoch + IF es_stopped \/ tpc = "ZeroDivisionError" THEN 1 ELSE 0

\* C28 as stated: the two loss lists have the same length, at most the
\* number of completed epochs; discrete_distribution_list has one entry per
\* epoch whose validation was computed, is never shorter than the loss
\* lists and is longer by one after an early stop
C28_ListLengths ==
    /\ Len(training_loss_list) = Len(validation_loss_list)
    /\ Len(training_loss_list) <= epoch
    /\ Len(discrete_distribution_list) = ValidatedEpochs
    /\ Len(discrete_distribution_list) >= Len(training_loss_list)
    /\ es_stopped => Len(discrete_distribution_list) = Len(training_loss_list) + 1

\* C28 as amended: after an early stop discrete_distribution_list is longer
\* by at least one, and by exactly one when the losses of every earlier
\* epoch were collected
C28_ListLengthsAtLeast ==
    /\ Len(training_loss_list) = Len(validation_loss_list)
    /\ Len(training_loss_list) <= epoch
    /\ Len(discrete_distribution_list) = ValidatedEpochs
    /\ Len(discrete_distribution_list) >= Len(training_loss_list)
    /\ es_stopped => Len(discrete_distribution_list) >= Len(training_loss_list) + 1
    /\ (es_stopped /\ Len(training_loss_list) = epoch) =>
          Len(discrete_distribution_list) = Len(training_loss_list) + 1

C28_Witness ==
    /\ es_stopped
    /\ tpc = "done"
    /\ epoch = MaxEpochs - 1
    /\ Len(discrete_distribution_list) = MaxEpochs
    /\ Len(training_loss_list) = MaxEpochs - 1
    /\ Len(validation_loss_list) = MaxEpochs - 1

\* C29: with show_loss and training_time_steps >= 1 the progress test never
\* divides by zero
C29_NoDivisionByZero ==
    (show_loss /\ training_time_steps >= 1) => tpc # "ZeroDivisionError"

=============================================================================
